---------------------------- MODULE Spec2Model ----------------------------
(***************************************************************************)
(* A model of pynamubot's TheSeed API client:                              *)
(*   - Limiter (api/api.py), the minimum-interval gate, executed by        *)
(*     threads that share one limiter, one statement at a time;            *)
(*   - TheSeedAPIClient's four operations (api/api.py), each a             *)
(*     `with self.limiter, self.session.<verb>(...) as response:` block;   *)
(*   - the response schemas (api/schemas.py), validated the way pydantic   *)
(*     BaseModel.model_validate validates a parsed JSON value.             *)
(* Time is the monotonic clock, counted in whole ticks.                    *)
(***************************************************************************)
EXTENDS Integers, Sequences, FiniteSets, TLC

\* ------------------------------------------------------------- bounds
MaxTime == 3
MaxInterval == 2
MaxCalls == 3

\* The threads that may share the limiter / the client.
Threads == {"t1", "t2"}

VARIABLES
    clock,      \* time.monotonic()
    interval,   \* Limiter.interval
    last,       \* Limiter.last
    users,      \* the threads that use this limiter
    pc,         \* per thread: the statement it is at
    op,         \* per thread: the call in progress
    now,        \* per thread: acquire's local `now`
    wait,       \* per thread: acquire's local `wait`
    wakeAt,     \* per thread: the earliest clock at which its sleep may return
    calls,      \* calls started so far (bounded by MaxCalls)
    acqCalls,   \* how many times self.acquire() was called
    sleepCalls, \* how many times time.sleep was called
    clockReads, \* how many times time.monotonic was called
    rets,       \* the clock values at which acquire() returned, in order
    trace,      \* per thread: the steps of its current (or last) call, in order
    out,        \* per thread: how its last call ended
    resp,       \* per thread: the response of session.get / session.post
    parsed,     \* per thread: the value response.json() returned
    httpCalls,  \* how many HTTP requests the session was asked to make
    args,       \* per thread: the arguments of its client operation
    req,        \* per thread: the request its operation handed to the transport
    session,    \* the client's requests.Session: "open" or "closed"
    scope,      \* the client's `with` block: "unscoped", "in" or "left"
    exc,        \* the exception the `with` body ended with ("none": it completed)
    escaped,    \* the exception that left the `with` statement ("none": none)
    schema,     \* the model whose model_validate is applied
    payload,    \* the value it is applied to
    result,     \* what it gave
    vpc         \* "input" before model_validate is applied, "validated" after

limiterVars == <<clock, interval, last, users, pc, op, now, wait, wakeAt,
                 calls, acqCalls, sleepCalls, clockReads, rets, trace, out>>
clientVars == <<resp, parsed, httpCalls>>
schemaVars == <<schema, payload, result, vpc>>
reqVars == <<args, req>>
scopeVars == <<session, scope, exc, escaped>>

vars == <<limiterVars, clientVars, schemaVars, reqVars, scopeVars>>

\* ------------------------------------------------------------- floats
\* float("-inf") and finite values
NegInf == [inf |-> TRUE, t |-> 0]
Fin(x) == [inf |-> FALSE, t |-> x]

\* api.py:32  `if self.interval <= 0.0:` (acquire is replaced by a no-op)
\* (variant: the guard written `< 0.0`)
DisabledLt(i) == i < 0
Disabled(i) == i <= 0

\* api.py:41-42  elapsed = now - self.last; wait = self.interval - elapsed
Wait(i, n, l) == IF l.inf THEN NegInf ELSE Fin(i - (n - l.t))

\* api.py:43  max(0.0, wait)
SleepDuration(w) == IF w.inf THEN 0 ELSE IF w.t > 0 THEN w.t ELSE 0


\* ------------------------------------------------------------- JSON
\* A parsed JSON value (what response.json() returns), tagged by its kind.
JNull == [k |-> "null"]
JStr(x) == [k |-> "str", v |-> x]
JInt(x) == [k |-> "int", v |-> x]
JBool(x) == [k |-> "bool", v |-> x]
JList(x) == [k |-> "list", v |-> x]
JObj(x) == [k |-> "obj", v |-> x]
\* A validated value that JSON has no kind for.
PyDatetime(x) == [k |-> "datetime", v |-> x]
PyModel(s, x) == [k |-> "model", s |-> s, v |-> x]

\* ------------------------------------------------------------- schemas
F(n, ty) == [name |-> n, type |-> ty]

\* schemas.py:19-57  the declared fields of each BaseModel, in order.  No field
\* declares a default or an alias: Field(description=...) only.
Fields(s) ==
    CASE s = "EditGETResponse" ->
            <<F("text", "str"), F("exists", "bool"), F("token", "str")>>
      [] s = "EditPOSTBody" ->
            <<F("text", "str"), F("log", "str"), F("token", "str")>>
      [] s = "EditPOSTResponse" ->
            <<F("status", "str"), F("rev", "int")>>
      [] s = "Namespaces" ->
            <<F("namespace", "str"), F("count", "int")>>
      [] s = "Backlinks" ->
            <<F("document", "str"), F("flags", "str")>>
      [] s = "BacklinkResponse" ->
            <<F("namespaces", "list[Namespaces]"), F("backlinks", "list[Backlinks]"),
              F("fromm", "Optional[str]"), F("until", "Optional[str]")>>
      [] s = "DiscussResponse" ->
            <<F("slug", "str"), F("topic", "str"),
              F("updated_date", "datetime"), F("status", "Literal")>>

\* schemas.py:47-48  the model a list field holds
ItemSchema(ty) ==
    IF ty = "list[Namespaces]" THEN "Namespaces" ELSE "Backlinks"

\* schemas.py:57  Literal["normal", "close", "pause"]
\* (variant: a literal that also lists archived)
StatusLiteralWithArchived == {"normal", "close", "pause", "archived"}
StatusLiteral == {"normal", "close", "pause"}

\* The key under which model_validate looks a field up: its name, as no field
\* has an alias.
Key(f) == f.name

\* A validation outcome: the validated value, or the errors (location, type).
Ok(x) == [ok |-> TRUE, val |-> x, errs |-> {}]
Fail(es) == [ok |-> FALSE, val |-> JNull, errs |-> es]
Err(loc, ty) == [loc |-> loc, type |-> ty]
Under(head, r) ==
    [r EXCEPT !.errs = {Err(<<head>> \o e.loc, e.type) : e \in r.errs}]

\* pydantic's validation of one value against a field's annotation (lax mode,
\* python input).
ValidateScalar(ty, j) ==
    CASE ty = "str" ->
            IF j.k = "str" THEN Ok(j) ELSE Fail({Err(<<>>, "string_type")})
      [] ty = "Optional[str]" ->
            IF j.k \in {"null", "str"} THEN Ok(j) ELSE Fail({Err(<<>>, "string_type")})
      [] ty = "bool" ->
            IF j.k = "bool" THEN Ok(j)
            ELSE IF j.k = "int" /\ j.v \in {0, 1} THEN Ok(JBool(j.v = 1))
            ELSE Fail({Err(<<>>, "bool_type")})
      [] ty = "int" ->
            IF j.k = "int" THEN Ok(j) ELSE Fail({Err(<<>>, "int_type")})
      [] ty = "datetime" ->
            IF j.k = "int" THEN Ok(PyDatetime(j.v)) ELSE Fail({Err(<<>>, "datetime_type")})
      [] ty = "Literal" ->
            IF j.k = "str" /\ j.v \in StatusLiteral THEN Ok(j)
            ELSE Fail({Err(<<>>, "literal_error")})

\* The errors for the declared fields that the object does not hold: pydantic
\* reports every one of them, not the first only.
\* (variant: validation that stops at the first missing field)
MissingFirstOnly(fs, obj) ==
    LET miss == {i \in 1..Len(fs) : Key(fs[i]) \notin DOMAIN obj}
    IN  {Err(<<fs[i].name>>, "missing") : i \in {i \in miss : \A m \in miss : i <= m}}
Missing(fs, obj) ==
    {Err(<<fs[i].name>>, "missing") : i \in {i \in 1..Len(fs) : Key(fs[i]) \notin DOMAIN obj}}

RECURSIVE ModelValidate(_, _)

\* A list[Model] field: the value must be a list, each element is validated
\* against the model and the errors are located by the element's index.
ValidateList(ty, j) ==
    IF j.k # "list" THEN Fail({Err(<<>>, "list_type")})
    ELSE LET r(i) == Under(i - 1, ModelValidate(ItemSchema(ty), j.v[i]))
             es == UNION {r(i).errs : i \in 1..Len(j.v)}
         IN  IF es = {} THEN Ok(JList([i \in 1..Len(j.v) |-> r(i).val]))
             ELSE Fail(es)

ValidateField(ty, j) ==
    IF ty \in {"list[Namespaces]", "list[Backlinks]"}
    THEN ValidateList(ty, j)
    ELSE ValidateScalar(ty, j)

\* BaseModel.model_validate(obj) for the model named s (schemas.py), as called
\* at api.py:106, 119, 151, 163.  Keys the model does not declare are ignored.
ModelValidate(s, j) ==
    IF j.k # "obj" THEN Fail({Err(<<>>, "model_type")})
    ELSE LET fs == Fields(s)
             present == {i \in 1..Len(fs) : Key(fs[i]) \in DOMAIN j.v}
             r(i) == Under(fs[i].name, ValidateField(fs[i].type, j.v[Key(fs[i])]))
             es == Missing(fs, j.v) \cup UNION {r(i).errs : i \in present}
             idx(n) == CHOOSE i \in 1..Len(fs) : fs[i].name = n
         IN  IF es = {}
             THEN Ok(PyModel(s, [n \in {fs[i].name : i \in 1..Len(fs)} |-> r(idx(n)).val]))
             ELSE Fail(es)

\* ------------------------------------------------------------- Init
NoResp == [status |-> 0, body |-> JNull]
NoOut == [kind |-> "none", status |-> 0, res |-> Fail({})]

LimiterInit ==
    /\ clock = 0
    /\ last = NegInf
    /\ pc = [t \in Threads |-> "idle"]
    /\ op = [t \in Threads |-> "none"]
    /\ now = [t \in Threads |-> 0]
    /\ wait = [t \in Threads |-> NegInf]
    /\ wakeAt = [t \in Threads |-> 0]
    /\ calls = 0
    /\ acqCalls = 0
    /\ sleepCalls = 0
    /\ clockReads = 0
    /\ rets = <<>>
    /\ trace = [t \in Threads |-> <<>>]
    /\ out = [t \in Threads |-> NoOut]

\* No arguments, and no request built yet.
NoArgs == [document |-> ""]
NoReq == [method |-> "none", path |-> <<>>, params |-> {}, json |-> JNull]

\* api.py:82  self.session = requests.Session(); the client is not (yet) the
\* subject of a `with` statement.
ClientInit ==
    /\ resp = [t \in Threads |-> NoResp]
    /\ parsed = [t \in Threads |-> JNull]
    /\ httpCalls = 0
    /\ args = [t \in Threads |-> NoArgs]
    /\ req = [t \in Threads |-> NoReq]
    /\ session = "open"
    /\ scope = "unscoped"
    /\ exc = "none"
    /\ escaped = "none"

SchemaIdle ==
    /\ schema = "none"
    /\ payload = JNull
    /\ result = Fail({})
    /\ vpc = "idle"

\* Threads sharing one Limiter(interval_seconds).
Init ==
    /\ LimiterInit
    /\ ClientInit
    /\ SchemaIdle
    /\ interval \in -1..MaxInterval
    /\ users \in {{"t1"}, Threads}

\* ------------------------------------------------------------- Limiter
\* The monotonic clock advances.
Tick ==
    /\ clock < MaxTime
    /\ clock' = clock + 1
    /\ UNCHANGED <<interval, last, users, pc, op, now, wait, wakeAt,
                   calls, acqCalls, sleepCalls, clockReads, rets, trace, out>>
    /\ UNCHANGED <<clientVars, schemaVars, reqVars, scopeVars>>

\* A thread calls limiter.acquire() directly.
CallAcquire(t) ==
    /\ t \in users
    /\ pc[t] = "idle"
    /\ calls < MaxCalls
    /\ calls' = calls + 1
    /\ acqCalls' = acqCalls + 1
    /\ op' = [op EXCEPT ![t] = "acquire"]
    /\ pc' = [pc EXCEPT ![t] = "acquire"]
    /\ trace' = [trace EXCEPT ![t] = <<"acquire_call">>]
    /\ out' = [out EXCEPT ![t] = NoOut]
    /\ UNCHANGED <<clock, interval, last, users, now, wait, wakeAt,
                   sleepCalls, clockReads, rets>>
    /\ UNCHANGED <<clientVars, schemaVars, reqVars, scopeVars>>

\* A thread enters `with limiter:`.
CallEnter(t) ==
    /\ t \in users
    /\ pc[t] = "idle"
    /\ calls < MaxCalls
    /\ calls' = calls + 1
    /\ op' = [op EXCEPT ![t] = "enter"]
    /\ pc' = [pc EXCEPT ![t] = "enter"]
    /\ trace' = [trace EXCEPT ![t] = <<>>]
    /\ out' = [out EXCEPT ![t] = NoOut]
    /\ UNCHANGED <<clock, interval, last, users, now, wait, wakeAt,
                   acqCalls, sleepCalls, clockReads, rets>>
    /\ UNCHANGED <<clientVars, schemaVars, reqVars, scopeVars>>

\* api.py:46-47  Limiter.__enter__ calls self.acquire()
LimiterEnter(t) ==
    /\ pc[t] = "enter"
    /\ acqCalls' = acqCalls + 1
    /\ pc' = [pc EXCEPT ![t] = "acquire"]
    /\ trace' = [trace EXCEPT ![t] = Append(@, "acquire_call")]
    /\ UNCHANGED <<clock, interval, last, users, op, now, wait, wakeAt,
                   calls, sleepCalls, clockReads, rets, out>>
    /\ UNCHANGED <<clientVars, schemaVars, reqVars, scopeVars>>

\* Where a thread goes when its acquire() has returned: back to its caller, or
\* on to the second context manager of the client's `with` statement.
AfterAcquire(t) == IF op[t] \in {"acquire", "enter"} THEN "idle" ELSE "request"
OutAfterAcquire(t) ==
    IF op[t] \in {"acquire", "enter"}
    THEN [kind |-> "returned", status |-> 0, res |-> Fail({})]
    ELSE out[t]

\* api.py:33  the instance attribute `acquire = lambda: None`
AcquireNoop(t) ==
    /\ pc[t] = "acquire"
    /\ Disabled(interval)
    /\ pc' = [pc EXCEPT ![t] = AfterAcquire(t)]
    /\ out' = [out EXCEPT ![t] = OutAfterAcquire(t)]
    /\ rets' = Append(rets, clock)
    /\ trace' = [trace EXCEPT ![t] = Append(@, "acquire_return")]
    /\ UNCHANGED <<clock, interval, last, users, op, now, wait, wakeAt,
                   calls, acqCalls, sleepCalls, clockReads>>
    /\ UNCHANGED <<clientVars, schemaVars, reqVars, scopeVars>>

\* api.py:40  now = time.monotonic()
AcquireNow(t) ==
    /\ pc[t] = "acquire"
    /\ ~Disabled(interval)
    /\ now' = [now EXCEPT ![t] = clock]
    /\ clockReads' = clockReads + 1
    /\ pc' = [pc EXCEPT ![t] = "l41"]
    /\ UNCHANGED <<clock, interval, last, users, op, wait, wakeAt,
                   calls, acqCalls, sleepCalls, rets, trace, out>>
    /\ UNCHANGED <<clientVars, schemaVars, reqVars, scopeVars>>

\* api.py:41-42
AcquireWait(t) ==
    /\ pc[t] = "l41"
    /\ wait' = [wait EXCEPT ![t] = Wait(interval, now[t], last)]
    /\ pc' = [pc EXCEPT ![t] = "l43"]
    /\ UNCHANGED <<clock, interval, last, users, op, now, wakeAt,
                   calls, acqCalls, sleepCalls, clockReads, rets, trace, out>>
    /\ UNCHANGED <<clientVars, schemaVars, reqVars, scopeVars>>

\* api.py:43  time.sleep(max(0.0, wait)) is called
AcquireSleep(t) ==
    /\ pc[t] = "l43"
    /\ sleepCalls' = sleepCalls + 1
    /\ wakeAt' = [wakeAt EXCEPT ![t] = clock + SleepDuration(wait[t])]
    /\ pc' = [pc EXCEPT ![t] = "sleeping"]
    /\ UNCHANGED <<clock, interval, last, users, op, now, wait,
                   calls, acqCalls, clockReads, rets, trace, out>>
    /\ UNCHANGED <<clientVars, schemaVars, reqVars, scopeVars>>

\* api.py:43  time.sleep returns, not before the requested duration has passed
AcquireWake(t) ==
    /\ pc[t] = "sleeping"
    /\ clock >= wakeAt[t]
    /\ pc' = [pc EXCEPT ![t] = "l44"]
    /\ UNCHANGED <<clock, interval, last, users, op, now, wait, wakeAt,
                   calls, acqCalls, sleepCalls, clockReads, rets, trace, out>>
    /\ UNCHANGED <<clientVars, schemaVars, reqVars, scopeVars>>

\* api.py:43  time.sleep raises (the wait is interrupted): the exception leaves
\* acquire(), and the operation that called it, before line 44
\* (variant: the timestamp recorded in a `finally` clause, interrupted or not)
AcquireInterruptedRecords(t) ==
    /\ pc[t] = "sleeping"
    /\ pc' = [pc EXCEPT ![t] = "idle"]
    /\ out' = [out EXCEPT ![t] = [kind |-> "Interrupted", status |-> 0, res |-> Fail({})]]
    /\ last' = Fin(clock)
    /\ now' = [now EXCEPT ![t] = 0]
    /\ wait' = [wait EXCEPT ![t] = NegInf]
    /\ wakeAt' = [wakeAt EXCEPT ![t] = 0]
    /\ UNCHANGED <<clock, interval, users, op,
                   calls, acqCalls, sleepCalls, clockReads, rets, trace>>
    /\ UNCHANGED <<clientVars, schemaVars, reqVars, scopeVars>>
AcquireInterrupted(t) ==
    /\ pc[t] = "sleeping"
    /\ pc' = [pc EXCEPT ![t] = "idle"]
    /\ out' = [out EXCEPT ![t] = [kind |-> "Interrupted", status |-> 0, res |-> Fail({})]]
    /\ now' = [now EXCEPT ![t] = 0]
    /\ wait' = [wait EXCEPT ![t] = NegInf]
    /\ wakeAt' = [wakeAt EXCEPT ![t] = 0]
    /\ UNCHANGED <<clock, interval, last, users, op,
                   calls, acqCalls, sleepCalls, clockReads, rets, trace>>
    /\ UNCHANGED <<clientVars, schemaVars, reqVars, scopeVars>>

\* api.py:44  the value stored in self.last: time.monotonic(), read now
\* (variant: `self.last = now`, the value read at line 40)
RecordedLastStart(t) == Fin(now[t])
RecordedLast(t) == Fin(clock)

\* api.py:44  self.last = time.monotonic(), and acquire returns
AcquireRecord(t) ==
    /\ pc[t] = "l44"
    /\ last' = RecordedLast(t)
    /\ clockReads' = clockReads + 1
    /\ rets' = Append(rets, clock)
    /\ pc' = [pc EXCEPT ![t] = AfterAcquire(t)]
    /\ out' = [out EXCEPT ![t] = OutAfterAcquire(t)]
    /\ trace' = [trace EXCEPT ![t] = Append(@, "acquire_return")]
    /\ now' = [now EXCEPT ![t] = 0]
    /\ wait' = [wait EXCEPT ![t] = NegInf]
    /\ wakeAt' = [wakeAt EXCEPT ![t] = 0]
    /\ UNCHANGED <<clock, interval, users, op, calls, acqCalls, sleepCalls>>
    /\ UNCHANGED <<clientVars, schemaVars, reqVars, scopeVars>>

\* ------------------------------------------------------------- Client
ClientOps == {"edit_get", "edit_post", "backlink", "discuss"}

\* A response body that is not JSON.
NotJson == [k |-> "notjson"]

\* The status codes a server answers with.
Statuses == {200, 201, 304, 404, 503}

GoodThread == JObj([slug |-> JStr("a"), topic |-> JStr("b"),
                    updated_date |-> JInt(1), status |-> JStr("normal")])
BadThread == JObj([slug |-> JStr("a"), topic |-> JStr("b"),
                   updated_date |-> JInt(1), status |-> JStr("archived")])
OtherThread == JObj([slug |-> JStr("b"), topic |-> JStr("b"),
                     updated_date |-> JInt(1), status |-> JStr("close")])
GoodNamespaces == JList(<<JObj([namespace |-> JStr("a"), count |-> JInt(1)])>>)
GoodBacklinks == JList(<<JObj([document |-> JStr("a"), flags |-> JStr("b")])>>)

\* The bodies a server answers an operation with.
Bodies(o) ==
    CASE o = "edit_get" ->
            {NotJson, JNull,
             JObj([text |-> JStr("a"), exists |-> JBool(TRUE), token |-> JStr("b")]),
             JObj([text |-> JStr("a"), exists |-> JBool(TRUE)])}
      [] o = "edit_post" ->
            {NotJson, JNull,
             JObj([status |-> JStr("a"), rev |-> JInt(1)]),
             JObj([status |-> JStr("a")])}
      [] o = "backlink" ->
            {NotJson, JNull,
             JObj([namespaces |-> GoodNamespaces, backlinks |-> GoodBacklinks,
                   from |-> JStr("a"), until |-> JNull]),
             JObj([namespaces |-> GoodNamespaces, backlinks |-> GoodBacklinks,
                   fromm |-> JStr("a"), until |-> JNull])}
      [] o = "discuss" ->
            {NotJson, JNull, JList(<<>>), JList(<<GoodThread>>),
             JList(<<GoodThread, OtherThread>>), JList(<<GoodThread, BadThread>>),
             JList(<<BadThread, GoodThread>>)}

\* api.py:106, 119, 151  the model an operation validates its body against
ResponseSchema(o) ==
    CASE o = "edit_get" -> "EditGETResponse"
      [] o = "edit_post" -> "EditPOSTResponse"
      [] o = "backlink" -> "BacklinkResponse"
      [] o = "discuss" -> "DiscussResponse"

\* requests' Response.raise_for_status(), called at api.py:105, 118, 150, 162:
\* it raises HTTPError for a 4xx or a 5xx status and for no other.
\* (variant: a check that raises for client errors only)
RaisesOnly4xx(st) == st \in 400..499
RaisesForStatus(st) == st \in 400..599

Ended(kind, st, r) == [kind |-> kind, status |-> st, res |-> r]

\* api.py:163  [DiscussResponse.model_validate(item) for item in response.json()]
\* The first element that does not validate raises; a value that cannot be
\* iterated raises TypeError.
\* (variant: the elements that do not validate left out of the returned list)
DiscussValidateSkipInvalid(j) ==
    IF j.k = "list"
    THEN LET r(i) == ModelValidate("DiscussResponse", j.v[i])
             good == {i \in 1..Len(j.v) : r(i).ok}
             RECURSIVE Kept(_)
             Kept(n) == IF n = 0 THEN <<>>
                        ELSE IF n \in good THEN Append(Kept(n - 1), r(n).val)
                        ELSE Kept(n - 1)
         IN  Ended("ok", 0, Ok(JList(Kept(Len(j.v)))))
    ELSE Ended("TypeError", 0, Fail({}))
DiscussValidate(j) ==
    IF j.k = "list"
    THEN LET r(i) == ModelValidate("DiscussResponse", j.v[i])
             bad == {i \in 1..Len(j.v) : ~r(i).ok}
         IN  IF bad = {}
             THEN Ended("ok", 0, Ok(JList([i \in 1..Len(j.v) |-> r(i).val])))
             ELSE Ended("ValidationError", 0, r(CHOOSE i \in bad : \A m \in bad : i <= m))
    ELSE Ended("TypeError", 0, Fail({}))

\* api.py:106, 119, 151, 163  the return expression of an operation
OpResult(o, j) ==
    IF o = "discuss" THEN DiscussValidate(j)
    ELSE LET r == ModelValidate(ResponseSchema(o), j)
         IN  Ended(IF r.ok THEN "ok" ELSE "ValidationError", 0, r)

\* ------------------------------------------------------------- requests
\* The arguments an operation is called with.  None is JNull.
\* An edit_post body is an EditPOSTBody instance (the annotation, api.py:108)
\* or a dictionary (the docstring, api.py:113).
EditBodyFields == [text |-> JStr("a"), log |-> JStr("b"), token |-> JStr("c")]
AllArgs(o) ==
    CASE o = "edit_get" -> {[document |-> "D"]}
      [] o = "discuss" -> {[document |-> "D"]}
      [] o = "edit_post" ->
            {[document |-> "D", body |-> b] :
                b \in {PyModel("EditPOSTBody", EditBodyFields), JObj(EditBodyFields)}}
      [] o = "backlink" ->
            {[document |-> "D", namespace |-> n, flag |-> f, fromm |-> fr, until |-> u] :
                n \in {JNull, JStr("a")}, f \in {JNull, JInt(0), JInt(1)},
                fr \in {JNull, JStr("a")}, u \in {JNull, JStr("b")}}

\* The arguments tried where the timing of the operations is what is examined:
\* a backlink call with the document only.
FewArgs(o) ==
    IF o = "backlink"
    THEN {[document |-> "D", namespace |-> JNull, flag |-> JNull,
           fromm |-> JNull, until |-> JNull]}
    ELSE AllArgs(o)

\* api.py:142-147  the params dictionary of backlink, in order
BacklinkParams(a) ==
    <<<<"namespace", a.namespace>>, <<"flag", a.flag>>,
      <<"from", a.fromm>>, <<"until", a.until>>>>

\* The text of a value in a query string: a string as it is, an integer in
\* decimal digits.
DecimalText(n) ==
    CASE n = 0 -> "0" [] n = 1 -> "1" [] n = 2 -> "2" [] n = 4 -> "4" [] n = 8 -> "8"
Render(v) == IF v.k = "int" THEN DecimalText(v.v) ELSE v.v

\* api.py:149  session.get(url, params=params): requests leaves a key whose
\* value is None out of the query string and sends every other key.
\* (variant: every key of the dictionary sent, None as the text "None")
EncodeParamsAll(ps) ==
    {<<ps[i][1], IF ps[i][2].k = "null" THEN "None" ELSE Render(ps[i][2])>> :
        i \in 1..Len(ps)}
EncodeParams(ps) ==
    {<<ps[i][1], Render(ps[i][2])>> : i \in {i \in 1..Len(ps) : ps[i][2].k # "null"}}

\* api.py:117  session.post(url, json=body): requests serialises the body with
\* json.dumps, which takes a dictionary and raises TypeError for an object
\* that is not of a JSON type, such as a BaseModel instance.
Serializable(o, a) == o = "edit_post" => a.body.k = "obj"

\* api.py:103-104, 116-117, 141-149, 160-161  the request of each operation
BuildRequest(o, a) ==
    CASE o = "edit_get" ->
            [method |-> "GET", path |-> <<"edit", a.document>>, params |-> {}, json |-> JNull]
      [] o = "edit_post" ->
            [method |-> "POST", path |-> <<"edit", a.document>>, params |-> {}, json |-> a.body]
      [] o = "backlink" ->
            [method |-> "GET", path |-> <<"backlink", a.document>>,
             params |-> EncodeParams(BacklinkParams(a)), json |-> JNull]
      [] o = "discuss" ->
            [method |-> "GET", path |-> <<"discuss", a.document>>, params |-> {}, json |-> JNull]

\* A thread calls edit_get, edit_post, backlink or discuss: the `with` statement
\* enters self.limiter first (api.py:104, 117, 149, 161).
\* (variant: the request issued without entering the limiter first)
CallOpRequestFirst(t, o, a) ==
    /\ t \in users
    /\ pc[t] = "idle"
    /\ scope # "deleted"
    /\ calls < MaxCalls
    /\ calls' = calls + 1
    /\ op' = [op EXCEPT ![t] = o]
    /\ pc' = [pc EXCEPT ![t] = "request"]
    /\ trace' = [trace EXCEPT ![t] = <<>>]
    /\ out' = [out EXCEPT ![t] = NoOut]
    /\ resp' = [resp EXCEPT ![t] = NoResp]
    /\ args' = [args EXCEPT ![t] = a]
    /\ req' = [req EXCEPT ![t] = NoReq]
    /\ UNCHANGED <<clock, interval, last, users, now, wait, wakeAt,
                   acqCalls, sleepCalls, clockReads, rets>>
    /\ UNCHANGED <<parsed, httpCalls, schemaVars, scopeVars>>
CallOp(t, o, a) ==
    /\ t \in users
    /\ pc[t] = "idle"
    /\ scope # "deleted"
    /\ calls < MaxCalls
    /\ calls' = calls + 1
    /\ op' = [op EXCEPT ![t] = o]
    /\ pc' = [pc EXCEPT ![t] = "enter"]
    /\ trace' = [trace EXCEPT ![t] = <<>>]
    /\ out' = [out EXCEPT ![t] = NoOut]
    /\ resp' = [resp EXCEPT ![t] = NoResp]
    /\ args' = [args EXCEPT ![t] = a]
    /\ req' = [req EXCEPT ![t] = NoReq]
    /\ UNCHANGED <<clock, interval, last, users, now, wait, wakeAt,
                   acqCalls, sleepCalls, clockReads, rets>>
    /\ UNCHANGED <<parsed, httpCalls, schemaVars, scopeVars>>

\* api.py:104, 117, 149, 161  self.session.get / post: the request is sent and
\* the response received
Request(t) ==
    /\ pc[t] = "request"
    /\ Serializable(op[t], args[t])
    /\ req' = [req EXCEPT ![t] = BuildRequest(op[t], args[t])]
    /\ httpCalls' = httpCalls + 1
    /\ \E st \in Statuses, b \in Bodies(op[t]) :
          resp' = [resp EXCEPT ![t] = [status |-> st, body |-> b]]
    /\ trace' = [trace EXCEPT ![t] = Append(@, "request")]
    /\ pc' = [pc EXCEPT ![t] = "status"]
    /\ UNCHANGED <<clock, interval, last, users, op, now, wait, wakeAt,
                   calls, acqCalls, sleepCalls, clockReads, rets, out>>
    /\ UNCHANGED <<parsed, schemaVars, args, scopeVars>>

\* api.py:104, 117, 149, 161  the transport raises (no response arrives)
RequestFails(t) ==
    /\ pc[t] = "request"
    /\ Serializable(op[t], args[t])
    /\ req' = [req EXCEPT ![t] = BuildRequest(op[t], args[t])]
    /\ httpCalls' = httpCalls + 1
    /\ trace' = [trace EXCEPT ![t] = Append(@, "request")]
    /\ out' = [out EXCEPT ![t] = Ended("ConnectionError", 0, Fail({}))]
    /\ pc' = [pc EXCEPT ![t] = "idle"]
    /\ UNCHANGED <<clock, interval, last, users, op, now, wait, wakeAt,
                   calls, acqCalls, sleepCalls, clockReads, rets>>
    /\ UNCHANGED <<resp, parsed, schemaVars, args, scopeVars>>

\* api.py:117  session.post(url, json=body) raises TypeError while it prepares
\* the request: the body cannot be serialised and nothing is sent
RequestUnserializable(t) ==
    /\ pc[t] = "request"
    /\ ~Serializable(op[t], args[t])
    /\ httpCalls' = httpCalls + 1
    /\ trace' = [trace EXCEPT ![t] = Append(@, "request")]
    /\ out' = [out EXCEPT ![t] = Ended("TypeError", 0, Fail({}))]
    /\ pc' = [pc EXCEPT ![t] = "idle"]
    /\ UNCHANGED <<clock, interval, last, users, op, now, wait, wakeAt,
                   calls, acqCalls, sleepCalls, clockReads, rets>>
    /\ UNCHANGED <<resp, parsed, schemaVars, reqVars, scopeVars>>

\* api.py:105, 118, 150, 162  response.raise_for_status(): the exception leaves
\* the operation; nothing catches it and nothing is tried again
\* (variant: an error status giving the limiter's slot back before it raises)
RaiseForStatusRollback(t) ==
    /\ pc[t] = "status"
    /\ trace' = [trace EXCEPT ![t] = Append(@, "status")]
    /\ IF RaisesForStatus(resp[t].status)
       THEN /\ out' = [out EXCEPT ![t] = Ended("HTTPError", resp[t].status, Fail({}))]
            /\ pc' = [pc EXCEPT ![t] = "idle"]
            /\ last' = NegInf
       ELSE /\ out' = out
            /\ pc' = [pc EXCEPT ![t] = "json"]
            /\ last' = last
    /\ UNCHANGED <<clock, interval, users, op, now, wait, wakeAt,
                   calls, acqCalls, sleepCalls, clockReads, rets>>
    /\ UNCHANGED <<clientVars, schemaVars, reqVars, scopeVars>>
\* (variant: an error status answered by trying the operation again)
RaiseForStatusRetry(t) ==
    /\ pc[t] = "status"
    /\ trace' = [trace EXCEPT ![t] = Append(@, "status")]
    /\ IF RaisesForStatus(resp[t].status)
       THEN /\ out' = out
            /\ pc' = [pc EXCEPT ![t] = "enter"]
       ELSE /\ out' = out
            /\ pc' = [pc EXCEPT ![t] = "json"]
    /\ UNCHANGED <<clock, interval, last, users, op, now, wait, wakeAt,
                   calls, acqCalls, sleepCalls, clockReads, rets>>
    /\ UNCHANGED <<clientVars, schemaVars, reqVars, scopeVars>>
RaiseForStatus(t) ==
    /\ pc[t] = "status"
    /\ trace' = [trace EXCEPT ![t] = Append(@, "status")]
    /\ IF RaisesForStatus(resp[t].status)
       THEN /\ out' = [out EXCEPT ![t] = Ended("HTTPError", resp[t].status, Fail({}))]
            /\ pc' = [pc EXCEPT ![t] = "idle"]
       ELSE /\ out' = out
            /\ pc' = [pc EXCEPT ![t] = "json"]
    /\ UNCHANGED <<clock, interval, last, users, op, now, wait, wakeAt,
                   calls, acqCalls, sleepCalls, clockReads, rets>>
    /\ UNCHANGED <<clientVars, schemaVars, reqVars, scopeVars>>

\* api.py:106, 119, 151, 163  response.json(): requests raises its
\* JSONDecodeError when the body is not JSON
\* (variant: a body that is not JSON read as None instead of raising)
ResponseJsonLenient(t) ==
    /\ pc[t] = "json"
    /\ trace' = [trace EXCEPT ![t] = Append(@, "json")]
    /\ parsed' = [parsed EXCEPT ![t] = IF resp[t].body = NotJson THEN JNull ELSE resp[t].body]
    /\ out' = out
    /\ pc' = [pc EXCEPT ![t] = "validate"]
    /\ UNCHANGED <<clock, interval, last, users, op, now, wait, wakeAt,
                   calls, acqCalls, sleepCalls, clockReads, rets>>
    /\ UNCHANGED <<resp, httpCalls, schemaVars, reqVars, scopeVars>>
ResponseJson(t) ==
    /\ pc[t] = "json"
    /\ trace' = [trace EXCEPT ![t] = Append(@, "json")]
    /\ IF resp[t].body = NotJson
       THEN /\ out' = [out EXCEPT ![t] = Ended("JSONDecodeError", 0, Fail({}))]
            /\ pc' = [pc EXCEPT ![t] = "idle"]
            /\ parsed' = parsed
       ELSE /\ out' = out
            /\ pc' = [pc EXCEPT ![t] = "validate"]
            /\ parsed' = [parsed EXCEPT ![t] = resp[t].body]
    /\ UNCHANGED <<clock, interval, last, users, op, now, wait, wakeAt,
                   calls, acqCalls, sleepCalls, clockReads, rets>>
    /\ UNCHANGED <<resp, httpCalls, schemaVars, reqVars, scopeVars>>

\* api.py:106, 119, 151, 163  model_validate of the parsed body, and the return
\* (or the raise) that leaves the `with` block
Validate(t) ==
    /\ pc[t] = "validate"
    /\ trace' = [trace EXCEPT ![t] = Append(@, "validate")]
    /\ out' = [out EXCEPT ![t] = OpResult(op[t], parsed[t])]
    /\ parsed' = [parsed EXCEPT ![t] = JNull]
    /\ pc' = [pc EXCEPT ![t] = "idle"]
    /\ UNCHANGED <<clock, interval, last, users, op, now, wait, wakeAt,
                   calls, acqCalls, sleepCalls, clockReads, rets>>
    /\ UNCHANGED <<resp, httpCalls, schemaVars, reqVars, scopeVars>>

LimiterStep(t) ==
    \/ LimiterEnter(t)
    \/ AcquireNoop(t)
    \/ AcquireNow(t)
    \/ AcquireWait(t)
    \/ AcquireSleep(t)
    \/ AcquireWake(t)
    \/ AcquireInterrupted(t)
    \/ AcquireRecord(t)

Next ==
    \/ Tick
    \/ \E t \in Threads :
        \/ CallAcquire(t)
        \/ CallEnter(t)
        \/ LimiterStep(t)

Spec == Init /\ [][Next]_vars

\* One thread using a TheSeedAPIClient whose limiter is Limiter(interval).
InitClient ==
    /\ LimiterInit
    /\ ClientInit
    /\ SchemaIdle
    /\ interval \in 0..MaxInterval
    /\ users = {"t1"}

NextClient ==
    \/ Tick
    \/ \E t \in Threads :
        \/ \E o \in ClientOps : \E a \in FewArgs(o) : CallOp(t, o, a)
        \/ LimiterStep(t)
        \/ Request(t)
        \/ RequestFails(t)
        \/ RequestUnserializable(t)
        \/ RaiseForStatus(t)
        \/ ResponseJson(t)
        \/ Validate(t)

SpecClient == InitClient /\ [][NextClient]_vars

\* ------------------------------------------------------------- the client's scope
\* api.py:168-169  TheSeedAPIClient.__enter__ returns the client
ClientEnter(t) ==
    /\ t \in users
    /\ pc[t] = "idle"
    /\ scope = "unscoped"
    /\ scope' = "in"
    /\ UNCHANGED <<limiterVars, clientVars, schemaVars, reqVars, session, exc, escaped>>

\* The ways the body of `with TheSeedAPIClient(...) as client:` can end after
\* the operation a thread ran last: it completes ("none"), the exception of
\* that operation leaves it, or code of the body itself raises.
BodyEnds(t) ==
    {"none", "KeyError"} \cup
        (IF out[t].kind \in {"none", "ok"} THEN {} ELSE {out[t].kind})

\* api.py:171-172  __exit__(exc_type, exc_val, exc_tb) calls
\* self.session.close() whatever its arguments are
\* (variant: the session closed only when the body completed)
SessionAfterExitOnlyClean(e) == IF e = "none" THEN "closed" ELSE "open"
SessionAfterExit(e) == "closed"

\* api.py:171-172  __exit__ returns None, so the `with` statement raises the
\* exception of its body again
EscapedAfterExit(e) == e

ClientExit(t, e) ==
    /\ t \in users
    /\ pc[t] = "idle"
    /\ scope = "in"
    /\ scope' = "left"
    /\ exc' = e
    /\ session' = SessionAfterExit(e)
    /\ escaped' = EscapedAfterExit(e)
    /\ UNCHANGED <<limiterVars, clientVars, schemaVars, reqVars>>

\* api.py:165-166  __del__ closes the session when the client is collected;
\* no operation runs on a collected client
ClientDel(t) ==
    /\ t \in users
    /\ pc[t] = "idle"
    /\ scope \in {"unscoped", "left"}
    /\ scope' = "deleted"
    /\ session' = "closed"
    /\ UNCHANGED <<limiterVars, clientVars, schemaVars, reqVars, exc, escaped>>

\* One thread using a client built without a limiter (api.py:85, Limiter(0.0)),
\* inside or outside a `with` block, with every combination of arguments.
InitSession ==
    /\ LimiterInit
    /\ ClientInit
    /\ SchemaIdle
    /\ interval = 0
    /\ users = {"t1"}

NextSession ==
    \E t \in Threads :
        \/ ClientEnter(t)
        \/ \E e \in BodyEnds(t) : ClientExit(t, e)
        \/ ClientDel(t)
        \/ \E o \in ClientOps : \E a \in AllArgs(o) : CallOp(t, o, a)
        \/ LimiterEnter(t)
        \/ AcquireNoop(t)
        \/ Request(t)
        \/ RequestFails(t)
        \/ RequestUnserializable(t)
        \/ RaiseForStatus(t)
        \/ ResponseJson(t)
        \/ Validate(t)

SpecSession == InitSession /\ [][NextSession]_vars

\* ------------------------------------------------------------- Schemas
SchemaNames == {"EditGETResponse", "EditPOSTBody", "EditPOSTResponse", "Namespaces",
                "Backlinks", "BacklinkResponse", "DiscussResponse"}

\* The keys a payload may hold: the names schemas.py declares, the key "from"
\* under which the backlink endpoint pages (api.py:145), and one key that no
\* model declares.
WireKeys(s) ==
    {Fields(s)[i].name : i \in 1..Len(Fields(s))}
        \cup (IF s = "BacklinkResponse" THEN {"from"} ELSE {"extra"})

TypeOfKey(s, key) ==
    IF key = "from" THEN "Optional[str]"
    ELSE IF key = "extra" THEN "extra"
    ELSE Fields(s)[CHOOSE i \in 1..Len(Fields(s)) : Fields(s)[i].name = key].type

\* The values tried under a key of each type: well-typed, null and mistyped.
Candidates(ty) ==
    CASE ty = "str" -> {JNull, JStr("a"), JInt(1)}
      [] ty = "Optional[str]" -> {JNull, JStr("a"), JInt(1)}
      [] ty = "bool" -> {JNull, JBool(TRUE), JBool(FALSE), JInt(1), JStr("a")}
      [] ty = "int" -> {JNull, JInt(1), JStr("a")}
      [] ty = "datetime" -> {JNull, JInt(1), JStr("a")}
      [] ty = "Literal" -> {JNull, JStr("normal"), JStr("close"), JStr("pause"),
                            JStr("archived"), JInt(1)}
      [] ty = "list[Namespaces]" ->
            {JNull, JStr("a"), JList(<<>>), GoodNamespaces,
             JList(<<JObj([namespace |-> JStr("a"), count |-> JInt(1)]),
                     JObj([namespace |-> JStr("b"), count |-> JInt(2)])>>),
             JList(<<JObj([namespace |-> JStr("a"), count |-> JInt(1)]),
                     JObj([namespace |-> JStr("b")])>>)}
      [] ty = "list[Backlinks]" ->
            {JNull, JStr("a"), JList(<<>>), GoodBacklinks,
             JList(<<JObj([document |-> JStr("a"), flags |-> JStr("b")]),
                     JObj([document |-> JStr("b"), flags |-> JStr("a")])>>),
             JList(<<JObj([flags |-> JStr("b")])>>)}
      [] ty = "extra" -> {JStr("a")}

\* Every object over a subset of the keys, each key holding one of its candidates.
RECURSIVE Objects(_, _)
Objects(s, keys) ==
    IF keys = {} THEN {[x \in {} |-> JNull]}
    ELSE LET key == CHOOSE x \in keys : TRUE
             rest == Objects(s, keys \ {key})
         IN  rest \cup {f @@ (key :> v) : f \in rest, v \in Candidates(TypeOfKey(s, key))}

Payloads(s) == {JNull, JStr("a"), JList(<<>>)} \cup {JObj(f) : f \in Objects(s, WireKeys(s))}

\* model_validate applied to one payload.
InitSchema ==
    /\ LimiterInit
    /\ ClientInit
    /\ interval = 0
    /\ users = {}
    /\ schema \in SchemaNames
    /\ payload \in Payloads(schema)
    /\ result = Fail({})
    /\ vpc = "input"

ApplyValidate ==
    /\ vpc = "input"
    /\ result' = ModelValidate(schema, payload)
    /\ vpc' = "validated"
    /\ UNCHANGED <<schema, payload, limiterVars, clientVars, reqVars, scopeVars>>

SpecSchema == InitSchema /\ [][ApplyValidate]_vars

\* ------------------------------------------------------------- Properties
Count(seq, e) == Cardinality({i \in DOMAIN seq : seq[i] = e})

\* Consecutive acquire() returns are at least the interval apart.
Spaced == \A k \in 1..(Len(rets) - 1) : rets[k + 1] - rets[k] >= interval

\* A client operation of thread t has ended (returned or raised).
EndedOp(t) == op[t] \in ClientOps /\ pc[t] = "idle" /\ out[t].kind # "none"

\* A response arrived for the operation of thread t.
Responded(t) == resp[t].status # 0

\* C1: with one caller and interval > 0, each acquire() returns at least the
\* interval after the previous acquire() returned.
C1_SingleCallerSpacing ==
    (Cardinality(users) = 1 /\ interval > 0) => Spaced

\* C1 witness: a single caller's second acquire() had to wait the interval out.
C1_Witness ==
    /\ users = {"t1"}
    /\ interval = 2
    /\ sleepCalls = 2
    /\ Len(rets) = 2
    /\ rets[2] = rets[1] + 2

\* C2: however many threads share the limiter, any two acquire() returns are at
\* least the interval apart (the check-and-update of last is indivisible).
C2_AnyCallersSpacing ==
    interval > 0 => Spaced

\* C3: with interval exactly 0 acquire() is a no-op: sleep is never called, the
\* clock is never read and last keeps its initial value.
C3_ZeroIntervalNoop ==
    interval = 0 => (sleepCalls = 0 /\ clockReads = 0 /\ last = NegInf)

\* C3 witness: with interval 0, an acquire() and a `with limiter:` have both
\* returned.
C3_Witness ==
    /\ interval = 0
    /\ op["t1"] = "acquire" /\ out["t1"].kind = "returned"
    /\ op["t2"] = "enter" /\ out["t2"].kind = "returned"
    /\ acqCalls = 2

\* C4 as stated: an operation whose response has a status outside 200-299 ends
\* in HTTPError carrying that status, its body never parsed or validated.
C4_Non2xxRaises ==
    \A t \in Threads :
        (EndedOp(t) /\ Responded(t) /\ resp[t].status \notin 200..299)
            => /\ out[t].kind = "HTTPError"
               /\ out[t].status = resp[t].status
               /\ Count(trace[t], "json") = 0
               /\ Count(trace[t], "validate") = 0

\* C4 amended: an operation whose response has a status in 400-599 ends in
\* HTTPError carrying that status, its body never parsed or validated; with any
\* other status the status check passes and the body is parsed.
C4_ErrorStatusRaises ==
    \A t \in Threads :
        (EndedOp(t) /\ Responded(t))
            => IF resp[t].status \in 400..599
               THEN /\ out[t].kind = "HTTPError"
                    /\ out[t].status = resp[t].status
                    /\ Count(trace[t], "json") = 0
                    /\ Count(trace[t], "validate") = 0
               ELSE /\ out[t].kind # "HTTPError"
                    /\ Count(trace[t], "json") = 1

\* C4 witness: a discuss() answered with 503 has raised HTTPError(503).
C4_Witness ==
    /\ EndedOp("t1")
    /\ op["t1"] = "discuss"
    /\ resp["t1"].status = 503
    /\ out["t1"].kind = "HTTPError"
    /\ out["t1"].status = 503

OpSteps == <<"acquire_call", "acquire_return", "request", "status", "json", "validate">>

\* C6: the steps of every client operation occur in the order acquire() called,
\* acquire() returned, request issued, status checked, body parsed, body
\* validated; the body is parsed only if the status check passed.
C6_StepOrder ==
    \A t \in Threads :
        op[t] \in ClientOps =>
            /\ Len(trace[t]) <= Len(OpSteps)
            /\ trace[t] = SubSeq(OpSteps, 1, Len(trace[t]))
            /\ Count(trace[t], "json") > 0 => ~RaisesForStatus(resp[t].status)

\* C6 witness: an operation has gone through all six steps and returned.
C6_Witness ==
    /\ EndedOp("t1")
    /\ trace["t1"] = OpSteps
    /\ out["t1"].kind = "ok"
    /\ interval = 2
    /\ Len(rets) = 2

\* C9 as stated: a 2xx response whose body is not JSON makes the operation
\* fail with the error of a schema mismatch.
C9_BadJsonIsValidationError ==
    \A t \in Threads :
        (EndedOp(t) /\ resp[t].status \in 200..299 /\ resp[t].body = NotJson)
            => out[t].kind = "ValidationError"

\* C9 amended: a 2xx response whose body is not JSON makes the operation fail
\* with the JSON decode error that response.json() raises, before any schema
\* validation.
C9_BadJsonIsDecodeError ==
    \A t \in Threads :
        (EndedOp(t) /\ resp[t].status \in 200..299 /\ resp[t].body = NotJson)
            => /\ out[t].kind = "JSONDecodeError"
               /\ Count(trace[t], "validate") = 0

\* C9 witness: a backlink() answered 200 with a body that is not JSON has ended
\* in the JSON decode error.
C9_Witness ==
    /\ EndedOp("t1")
    /\ op["t1"] = "backlink"
    /\ resp["t1"].status = 200
    /\ resp["t1"].body = NotJson
    /\ out["t1"].kind = "JSONDecodeError"

\* The fields of each schema as the service sends them: those of the model,
\* with the backlink pagination keys named from and until.
SpecFields(s) ==
    IF s = "BacklinkResponse"
    THEN <<F("namespaces", "list[Namespaces]"), F("backlinks", "list[Backlinks]"),
           F("from", "Optional[str]"), F("until", "Optional[str]")>>
    ELSE Fields(s)

SpecKeys(s) == {SpecFields(s)[i].name : i \in 1..Len(SpecFields(s))}
RequiredKeys(s) ==
    {SpecFields(s)[i].name : i \in {i \in 1..Len(SpecFields(s)) :
                                       SpecFields(s)[i].type # "Optional[str]"}}

\* A value of the field's declared type.
ScalarTyped(ty, j) ==
    CASE ty = "str" -> j.k = "str"
      [] ty = "Optional[str]" -> j.k \in {"null", "str"}
      [] ty = "bool" -> j.k = "bool"
      [] ty = "int" -> j.k = "int"
      [] ty = "datetime" -> j.k = "int"
      [] ty = "Literal" -> j.k = "str" /\ j.v \in {"normal", "close", "pause"}

ItemTyped(s, j) ==
    /\ j.k = "obj"
    /\ DOMAIN j.v = SpecKeys(s)
    /\ \A i \in 1..Len(SpecFields(s)) :
          ScalarTyped(SpecFields(s)[i].type, j.v[SpecFields(s)[i].name])

Typed(ty, j) ==
    IF ty \in {"list[Namespaces]", "list[Backlinks]"}
    THEN j.k = "list" /\ \A i \in 1..Len(j.v) : ItemTyped(ItemSchema(ty), j.v[i])
    ELSE ScalarTyped(ty, j)

\* A well-formed payload of schema s: an object of the schema's keys, every
\* required one present and each present one of its type (an optional one
\* may be absent or null).
WellFormed(s, j) ==
    /\ j.k = "obj"
    /\ DOMAIN j.v \subseteq SpecKeys(s)
    /\ RequiredKeys(s) \subseteq DOMAIN j.v
    /\ \A i \in 1..Len(SpecFields(s)) :
          SpecFields(s)[i].name \in DOMAIN j.v
              => Typed(SpecFields(s)[i].type, j.v[SpecFields(s)[i].name])

\* The validated value p holds what the JSON value j holds.
SameScalar(j, p) ==
    IF p.k = "datetime" THEN j.k = "int" /\ j.v = p.v
    ELSE j.k = p.k /\ (j.k = "null" \/ j.v = p.v)
SameItem(j, p) ==
    /\ p.k = "model"
    /\ \A key \in DOMAIN j.v : key \in DOMAIN p.v /\ SameScalar(j.v[key], p.v[key])
Same(j, p) ==
    IF j.k = "list"
    THEN /\ p.k = "list"
         /\ Len(j.v) = Len(p.v)
         /\ \A i \in 1..Len(j.v) : SameItem(j.v[i], p.v[i])
    ELSE SameScalar(j, p)

\* The attribute of the validated object that holds a payload key: `from` is a
\* Python keyword, so the object spells it fromm.
AttrOf(key) == IF key = "from" THEN "fromm" ELSE key

\* C7: a well-formed payload that holds every field of its schema validates,
\* and the resulting object holds every field of the payload unchanged (for
\* BacklinkResult, from and until included).
C7_RoundTrip ==
    (vpc = "validated" /\ WellFormed(schema, payload)
        /\ DOMAIN payload.v = SpecKeys(schema))
        => /\ result.ok
           /\ \A key \in DOMAIN payload.v :
                 /\ AttrOf(key) \in DOMAIN result.val.v
                 /\ Same(payload.v[key], result.val.v[AttrOf(key)])

\* C8: validation accepts a well-formed payload, whose optional fields may each
\* be absent, null or a string, and rejects a payload in which a required
\* field is absent or null.
C8_OptionalAndRequired ==
    (vpc = "validated" /\ payload.k = "obj" /\ DOMAIN payload.v \subseteq SpecKeys(schema))
        => /\ WellFormed(schema, payload) => result.ok
           /\ (\E key \in RequiredKeys(schema) :
                  key \notin DOMAIN payload.v \/ payload.v[key].k = "null")
                  => ~result.ok

\* The declared fields that an object payload does not hold.
MissingNames(s, j) ==
    {Fields(s)[i].name : i \in {i \in 1..Len(Fields(s)) : Fields(s)[i].name \notin DOMAIN j.v}}

\* The list elements of an object payload, with the field that holds them.
Elements(s, j) ==
    {<<Fields(s)[i], n>> : i \in {i \in 1..Len(Fields(s)) :
                                    /\ Fields(s)[i].type \in {"list[Namespaces]", "list[Backlinks]"}
                                    /\ Fields(s)[i].name \in DOMAIN j.v
                                    /\ j.v[Fields(s)[i].name].k = "list"},
                           n \in 1..2}

\* C10: an object payload that lacks a required field fails validation, and
\* the error names every missing field, those of the elements of a list too.
C10_MissingFieldsNamed ==
    (vpc = "validated" /\ payload.k = "obj")
        => /\ MissingNames(schema, payload) # {} => ~result.ok
           /\ \A n \in MissingNames(schema, payload) :
                 Err(<<n>>, "missing") \in result.errs
           /\ \A e \in Elements(schema, payload) :
                 LET f == e[1]
                     items == payload.v[f.name].v
                 IN  (e[2] <= Len(items) /\ items[e[2]].k = "obj")
                       => \A n \in MissingNames(ItemSchema(f.type), items[e[2]]) :
                             Err(<<f.name, e[2] - 1, n>>, "missing") \in result.errs

\* C10 witness: an EditGETResponse payload that holds only exists has failed
\* validation with exactly the errors naming text and token.
C10_Witness ==
    /\ vpc = "validated"
    /\ schema = "EditGETResponse"
    /\ payload.k = "obj"
    /\ DOMAIN payload.v = {"exists"}
    /\ ~result.ok
    /\ result.errs = {Err(<<"text">>, "missing"), Err(<<"token">>, "missing")}


\* A discussion status outside the three the schema allows.
BadStatus(j) ==
    /\ j.k = "obj"
    /\ "status" \in DOMAIN j.v
    /\ ~(j.v["status"].k = "str" /\ j.v["status"].v \in {"normal", "close", "pause"})

\* C11: a DiscussResponse payload validates only if its status is one of
\* normal, close and pause; any other status fails validation, with an error
\* at the status field.
C11_StatusClosedSet ==
    (vpc = "validated" /\ schema = "DiscussResponse" /\ payload.k = "obj")
        => /\ result.ok
                => /\ "status" \in DOMAIN payload.v
                   /\ payload.v["status"].k = "str"
                   /\ payload.v["status"].v \in {"normal", "close", "pause"}
           /\ BadStatus(payload)
                => /\ ~result.ok
                   /\ \E e \in result.errs : e.loc = <<"status">>

\* C11 witness: a thread payload that is right in every field but its status,
\* archived, has failed validation with the one error at status.
C11_Witness ==
    /\ vpc = "validated"
    /\ schema = "DiscussResponse"
    /\ payload = JObj([slug |-> JStr("a"), topic |-> JStr("a"),
                       updated_date |-> JInt(1), status |-> JStr("archived")])
    /\ ~result.ok
    /\ result.errs = {Err(<<"status">>, "literal_error")}

\* C12: discuss() is all-or-nothing over the array the server returned: when
\* every element is a well-typed thread it returns one validated thread per
\* element in the server's order, and when an element at any position has a
\* status outside the allowed ones it raises the validation error and returns
\* no list at all.
C12_DiscussAllOrNothing ==
    \A t \in Threads :
        (/\ EndedOp(t)
         /\ op[t] = "discuss"
         /\ resp[t].status \in 200..399
         /\ resp[t].body.k = "list")
            => LET items == resp[t].body.v
               IN  /\ (\A i \in 1..Len(items) : ItemTyped("DiscussResponse", items[i]))
                        => /\ out[t].kind = "ok"
                           /\ out[t].res.ok
                           /\ out[t].res.val.k = "list"
                           /\ Len(out[t].res.val.v) = Len(items)
                           /\ \A i \in 1..Len(items) :
                                 SameItem(items[i], out[t].res.val.v[i])
                   /\ (\E i \in 1..Len(items) : BadStatus(items[i]))
                        => /\ out[t].kind = "ValidationError"
                           /\ ~out[t].res.ok
                           /\ out[t].res.val.k = "null"

\* C12 witness: discuss() answered 200 with two threads, the second one
\* archived, has raised the validation error and returned nothing.
C12_Witness ==
    /\ EndedOp("t1")
    /\ op["t1"] = "discuss"
    /\ resp["t1"].status = 200
    /\ resp["t1"].body.k = "list"
    /\ Len(resp["t1"].body.v) = 2
    /\ ItemTyped("DiscussResponse", resp["t1"].body.v[1])
    /\ BadStatus(resp["t1"].body.v[2])
    /\ out["t1"].kind = "ValidationError"
    /\ out["t1"].res.val.k = "null"


\* The optional arguments of backlink() by the name of their query parameter.
OptionalKeys == {"namespace", "flag", "from", "until"}
Supplied(a, key) ==
    CASE key = "namespace" -> a.namespace
      [] key = "flag" -> a.flag
      [] key = "from" -> a.fromm
      [] key = "until" -> a.until
\* The text a supplied value has in a query string.
QueryText(v) == IF v.k = "int" THEN (IF v.v = 0 THEN "0" ELSE "1") ELSE v.v

\* C13: the request backlink() makes is a GET of /backlink/{document} whose
\* query string holds exactly the supplied optional arguments, each with its
\* own value, and no entry for an argument left out; with the document alone
\* it has no query parameters.
C13_BacklinkParamsExact ==
    \A t \in Threads :
        (op[t] = "backlink" /\ req[t].method # "none")
            => /\ req[t].method = "GET"
               /\ req[t].path = <<"backlink", args[t].document>>
               /\ \A p \in req[t].params : p[1] \in OptionalKeys
               /\ \A key \in OptionalKeys :
                     IF Supplied(args[t], key).k = "null"
                     THEN \A p \in req[t].params : p[1] # key
                     ELSE \A text \in {"0", "1", "a", "b", "", "None", "null"} :
                            <<key, text>> \in req[t].params
                                <=> text = QueryText(Supplied(args[t], key))
               /\ (\A key \in OptionalKeys : Supplied(args[t], key).k = "null")
                     => req[t].params = {}

\* C13 witness: backlink(document, flag=0, fromm="a") has made a request whose
\* query string is flag=0 and from=a and nothing else.
C13_Witness ==
    /\ op["t1"] = "backlink"
    /\ args["t1"].namespace = JNull
    /\ args["t1"].flag = JInt(0)
    /\ args["t1"].fromm = JStr("a")
    /\ args["t1"].until = JNull
    /\ req["t1"].method = "GET"
    /\ req["t1"].params = {<<"flag", "0">>, <<"from", "a">>}

\* C14: edit_post(document, request) with a well-formed EditPOSTBody makes one
\* POST to /edit/{document} whose body is the JSON object of text, log and
\* token, and on a 2xx response with a matching body it returns the result.
C14_EditPostSubmits ==
    \A t \in Threads :
        (EndedOp(t) /\ op[t] = "edit_post" /\ args[t].body.k = "model")
            => /\ Count(trace[t], "request") = 1
               /\ req[t].method = "POST"
               /\ req[t].path = <<"edit", args[t].document>>
               /\ req[t].json.k = "obj"
               /\ req[t].json.v = args[t].body.v
               /\ (/\ resp[t].status \in 200..299
                   /\ resp[t].body.k = "obj"
                   /\ DOMAIN resp[t].body.v = {"status", "rev"})
                     => out[t].kind = "ok"

\* C18: once the `with` block of a client has been left, whether its body
\* completed or raised, the session is closed and the exception the body
\* ended with is the one that leaves the statement.
C18_ScopeExitCloses ==
    scope = "left" => (session = "closed" /\ escaped = exc)

\* C18 witness: the block was left by the validation error of an operation; the
\* session is closed and the error went on to the caller.
C18_Witness ==
    /\ scope = "left"
    /\ out["t1"].kind = "ValidationError"
    /\ exc = "ValidationError"
    /\ session = "closed"
    /\ escaped = "ValidationError"


\* C15: an acquire() whose sleep is interrupted leaves last as it was: the step
\* in which the sleep raises does not change last, and last is changed by no
\* step but line 44 of an acquire() whose sleep has returned.
C15_InterruptKeepsLast ==
    [][/\ \A t \in Threads :
             (pc[t] = "sleeping" /\ pc'[t] = "idle") => last' = last
       /\ last' # last => \E t \in Threads : pc[t] = "l44" /\ pc'[t] # "l44"]_vars

\* C15 witness: after one completed acquire(), the caller's next acquire() was
\* interrupted in its sleep; last is still the time the first one returned.
C15_Witness ==
    /\ users = {"t1"}
    /\ interval > 0
    /\ Len(rets) = 1
    /\ sleepCalls = 2
    /\ pc["t1"] = "idle"
    /\ out["t1"].kind = "Interrupted"
    /\ clock > rets[1]
    /\ last = Fin(rets[1])

\* C16: with interval > 0 and any number of callers, the duration an acquire()
\* asks sleep for is at least 0 and at most the interval, and 0 while no
\* acquire() has ever returned.
C16_SleepWithinInterval ==
    interval > 0
        => \A t \in Threads :
              pc[t] = "sleeping"
                  => /\ SleepDuration(wait[t]) >= 0
                     /\ SleepDuration(wait[t]) <= interval
                     /\ rets = <<>> => SleepDuration(wait[t]) = 0

\* C17: what acquire() stores in last is the clock value read when it returns,
\* after its wait, so last is always the time of the latest return, and a single
\* caller's next wait is the interval less the time since that return.
C17_LastIsCompletionTime ==
    (interval > 0 /\ rets # <<>>)
        => /\ last = Fin(rets[Len(rets)])
           /\ \A t \in Threads :
                 (users = {t} /\ pc[t] \in {"l43", "sleeping"})
                     => wait[t] = Fin(interval - (now[t] - rets[Len(rets)]))

\* C17 witness: a first acquire() called at 0 returned at 1; the second, called
\* at 2 with interval 2, waits 1 (it would wait 0 measured from the start).
C17_Witness ==
    /\ users = {"t1"}
    /\ interval = 2
    /\ rets = <<1>>
    /\ pc["t1"] = "sleeping"
    /\ now["t1"] = 2
    /\ wait["t1"] = Fin(1)
    /\ last = Fin(1)

\* An operation of thread t got as far as its HTTP request.
Requested(t) == op[t] \in ClientOps /\ Count(trace[t], "acquire_return") = 1

\* C19: for a single-threaded client with interval > 0, the limiter's last is
\* set before the HTTP request and stays the time of the latest acquisition
\* when the operation ends in an HTTP status error, a validation error or any
\* other way, so consecutive acquisitions are at least the interval apart
\* whichever operations fail.
C19_FailureKeepsSlot ==
    interval > 0
        => /\ Spaced
           /\ \A t \in Threads :
                 Requested(t) => (rets # <<>> /\ last = Fin(rets[Len(rets)]))

\* C19 witness: the second operation, acquired the interval after the first,
\* has ended in an HTTP status error and last is still its acquisition time.
C19_Witness ==
    /\ interval = 2
    /\ EndedOp("t1")
    /\ out["t1"].kind = "HTTPError"
    /\ httpCalls = 2
    /\ Len(rets) = 2
    /\ rets[2] = rets[1] + 2
    /\ last = Fin(rets[2])

=============================================================================
